---- MODULE Spec2Model ----
(***************************************************************************)
(* The two example scripts of pytrak, examples/simple_example.py and       *)
(* examples/trakstar_example.py, as one state machine.  Every call into    *)
(* the pytrak wrapper is one step; the wrapper itself is not part of the   *)
(* sources, so each call's result (success, reported failure, raised       *)
(* Exception) is chosen by the environment.  A user interrupt (Ctrl+C,     *)
(* KeyboardInterrupt) may arrive between any two steps.                    *)
(***************************************************************************)
EXTENDS Integers, Sequences, FiniteSets

\* Largest number of sensors the device reports.
MaxSensors == 2

\* The retry budget of the specification's session (no counterpart in the scripts).
RetryBudget == 2

VARIABLES
    script,       \* which example runs: "simple" or "trakstar"
    pc,           \* position of the script
    isok,         \* what trakstar.is_ok() answered: "unknown" before the call, "yes", "no"
    devSensors,   \* what the device answers to get_number_of_sensors()
    num_sensors,  \* the script's num_sensors, -1 while unassigned
    i,            \* loop variable of the for loops (i / sensor_id)
    rateSet,      \* set_measurement_rate returned 0
    rangeSet,     \* set_maximum_range returned 0
    hemi,         \* sensors whose set_sensor_hemisphere returned 0
    mode,         \* output mode applied to each sensor
    cfgFailed,    \* some configuration call reported failure
    sweep,        \* samples read so far in the current sweep of the polling loop
    delivered,    \* samples of the current sweep the script has printed
    lastRead,     \* the most recent single-sensor pose read
    consecFail,   \* consecutive failed reads of the polling loop (saturating)
    releases,     \* number of release/close calls made on the device handle
    status,       \* how the process ended: "none", "0", "1", "interrupt"
    excRaised,    \* an Exception was raised
    interrupted   \* a KeyboardInterrupt was caught by the polling loop's handler

vars == <<script, pc, isok, devSensors, num_sensors, i, rateSet, rangeSet, hemi,
          mode, cfgFailed, sweep, delivered, lastRead, consecFail, releases,
          status, excRaised, interrupted>>

cfgVars == <<rateSet, rangeSet, hemi, mode, cfgFailed>>
readVars == <<sweep, delivered, lastRead, consecFail>>

Sensors == 0 .. (MaxSensors - 1)
Modes == {"none", "quaternion", "angles", "matrix"}
NoRead == [id |-> -1, kind |-> "none", cfg |-> "none"]

\* Results of a wrapper call: what it returns, or that it raised.
CallResults == {"ok", "fail", "raise"}

Min(a, b) == IF a < b THEN a ELSE b

Init ==
    /\ script \in {"simple", "trakstar"}
    /\ pc = IF script = "simple" THEN "s_init" ELSE "t_init"
    /\ isok = "unknown"
    /\ devSensors \in 0 .. MaxSensors
    /\ num_sensors = -1
    /\ i = 0
    /\ rateSet = FALSE
    /\ rangeSet = FALSE
    /\ hemi = {}
    /\ mode = [s \in Sensors |-> "none"]
    /\ cfgFailed = FALSE
    /\ sweep = <<>>
    /\ delivered = <<>>
    /\ lastRead = NoRead
    /\ consecFail = 0
    /\ releases = 0
    /\ status = "none"
    /\ excRaised = FALSE
    /\ interrupted = FALSE

-----------------------------------------------------------------------------
(* Wrapper results the scripts consume *)

\* One PoseSample-like dict per sensor, in enumeration order.
AllSamples(n, f) == [k \in 1 .. n |-> [id |-> k - 1, success |-> f[k - 1]]]

\* The aggregate "success" of get_all_sensors_data().
Aggregate(samples) == \A k \in 1 .. Len(samples) : samples[k].success

\* Consecutive failed reads, saturating one above the budget.
CountFail(c, ok) == IF ok THEN 0 ELSE Min(c + 1, RetryBudget + 1)

-----------------------------------------------------------------------------
(* examples/trakstar_example.py *)

\* main() with "return 0" in the except clause.
ReturnStatusExcZero(path) == IF path \in {"initfail", "nosensors"} THEN "1" ELSE "0"

\* The value main() returns on each of its return paths.
ReturnStatus(path) ==
    CASE path = "initfail"  -> "1"
      [] path = "nosensors" -> "1"
      [] path = "completed" -> "0"
      [] path = "exception" -> "1"

\* main() returns: sys.exit(main()) ends the process with that status.
T_Return(path) ==
    /\ pc' = "t_done"
    /\ status' = ReturnStatus(path)

\* except Exception as e: print; return 1
T_Raise ==
    /\ excRaised' = TRUE
    /\ T_Return("exception")

\* Lines 65-71: trakstar = pytrak.Trakstar(); if not trakstar.is_ok(): return 1
T_Construct ==
    /\ script = "trakstar" /\ pc = "t_init"
    /\ \E r \in CallResults :
         \/ /\ r = "ok"
            /\ isok' = "yes" /\ pc' = "t_info"
            /\ UNCHANGED <<status, excRaised>>
         \/ /\ r = "fail"
            /\ isok' = "no"
            /\ T_Return("initfail")
            /\ UNCHANGED excRaised
         \/ /\ r = "raise"
            /\ T_Raise
            /\ UNCHANGED isok
    /\ UNCHANGED <<script, devSensors, num_sensors, i, cfgVars, readVars,
                   releases, interrupted>>

\* Lines 75-81: get_number_of_sensors(), transmitter_attached(), num_sensors.
T_Info ==
    /\ script = "trakstar" /\ pc = "t_info"
    /\ \E r \in {"ok", "raise"} :
         \/ /\ r = "ok"
            /\ num_sensors' = devSensors
            /\ i' = 0
            /\ pc' = "t_attach"
            /\ UNCHANGED <<status, excRaised>>
         \/ /\ r = "raise"
            /\ T_Raise
            /\ UNCHANGED <<num_sensors, i>>
    /\ UNCHANGED <<script, isok, devSensors, cfgVars, readVars, releases,
                   interrupted>>

\* Lines 82-84: for i in range(num_sensors): sensor_attached(i)
T_SensorAttached ==
    /\ script = "trakstar" /\ pc = "t_attach"
    /\ i < num_sensors
    /\ \E r \in {"ok", "raise"} :
         \/ /\ r = "ok"
            /\ i' = i + 1
            /\ UNCHANGED <<pc, status, excRaised>>
         \/ /\ r = "raise"
            /\ T_Raise
            /\ UNCHANGED i
    /\ UNCHANGED <<script, isok, devSensors, num_sensors, cfgVars, readVars,
                   releases, interrupted>>

\* Lines 86-88: if num_sensors == 0: return 1
T_CheckSensors ==
    /\ script = "trakstar" /\ pc = "t_attach"
    /\ i >= num_sensors
    /\ IF num_sensors = 0
         THEN T_Return("nosensors")
         ELSE pc' = "t_rate" /\ UNCHANGED status
    /\ UNCHANGED <<script, isok, devSensors, num_sensors, i, cfgVars, readVars,
                   releases, excRaised, interrupted>>

\* Lines 94-96: result = set_measurement_rate(100.0); the result is only printed.
T_SetMeasurementRate ==
    /\ script = "trakstar" /\ pc = "t_rate"
    /\ \E r \in CallResults :
         \/ /\ r \in {"ok", "fail"}
            /\ rateSet' = (r = "ok")
            /\ cfgFailed' = (cfgFailed \/ r = "fail")
            /\ pc' = "t_range"
            /\ UNCHANGED <<status, excRaised>>
         \/ /\ r = "raise"
            /\ T_Raise
            /\ UNCHANGED <<rateSet, cfgFailed>>
    /\ UNCHANGED <<script, isok, devSensors, num_sensors, i, rangeSet, hemi,
                   mode, readVars, releases, interrupted>>

\* Lines 99-101: result = set_maximum_range(False); the result is only printed.
T_SetMaximumRange ==
    /\ script = "trakstar" /\ pc = "t_range"
    /\ \E r \in CallResults :
         \/ /\ r \in {"ok", "fail"}
            /\ rangeSet' = (r = "ok")
            /\ cfgFailed' = (cfgFailed \/ r = "fail")
            /\ i' = 0
            /\ pc' = "t_hemi"
            /\ UNCHANGED <<status, excRaised>>
         \/ /\ r = "raise"
            /\ T_Raise
            /\ UNCHANGED <<rangeSet, cfgFailed, i>>
    /\ UNCHANGED <<script, isok, devSensors, num_sensors, rateSet, hemi, mode,
                   readVars, releases, interrupted>>

\* Lines 104-108: set_sensor_hemisphere(i, False); the result is only printed.
T_SetSensorHemisphere ==
    /\ script = "trakstar" /\ pc = "t_hemi"
    /\ i < num_sensors
    /\ \E r \in CallResults :
         \/ /\ r \in {"ok", "fail"}
            /\ hemi' = IF r = "ok" THEN hemi \cup {i} ELSE hemi
            /\ cfgFailed' = (cfgFailed \/ r = "fail")
            /\ pc' = "t_quat"
            /\ UNCHANGED <<status, excRaised>>
         \/ /\ r = "raise"
            /\ T_Raise
            /\ UNCHANGED <<hemi, cfgFailed>>
    /\ UNCHANGED <<script, isok, devSensors, num_sensors, i, rateSet, rangeSet,
                   mode, readVars, releases, interrupted>>

\* Lines 110-112: set_sensor_quaternion(i); the result is only printed; next i.
T_SetSensorQuaternion ==
    /\ script = "trakstar" /\ pc = "t_quat"
    /\ \E r \in CallResults :
         \/ /\ r \in {"ok", "fail"}
            /\ mode' = IF r = "ok" THEN [mode EXCEPT ![i] = "quaternion"] ELSE mode
            /\ cfgFailed' = (cfgFailed \/ r = "fail")
            /\ i' = i + 1
            /\ pc' = IF i + 1 < num_sensors THEN "t_hemi" ELSE "t_single_quat"
            /\ UNCHANGED <<status, excRaised>>
         \/ /\ r = "raise"
            /\ T_Raise
            /\ UNCHANGED <<mode, cfgFailed, i>>
    /\ UNCHANGED <<script, isok, devSensors, num_sensors, rateSet, rangeSet,
                   hemi, readVars, releases, interrupted>>

\* if num_sensors > 0: data = get_coordinates_<kind>(0); print_sensor_data(0, data, kind)
SingleRead(here, kind, next) ==
    /\ script = "trakstar" /\ pc = here
    /\ \E r \in CallResults :
         \/ /\ r \in {"ok", "fail"}
            /\ lastRead' = IF num_sensors > 0
                             THEN [id |-> 0, kind |-> kind, cfg |-> mode[0]]
                             ELSE lastRead
            /\ pc' = next
            /\ UNCHANGED <<status, excRaised>>
         \/ /\ r = "raise"
            /\ num_sensors > 0
            /\ T_Raise
            /\ UNCHANGED lastRead
    /\ UNCHANGED <<script, isok, devSensors, num_sensors, i, cfgVars, sweep,
                   delivered, consecFail, releases, interrupted>>

\* Lines 117-121
T_SingleQuaternion == SingleRead("t_single_quat", "quaternion", "t_single_angles")

\* Lines 123-127
T_SingleAngles == SingleRead("t_single_angles", "angles", "t_single_matrix")

\* Lines 129-133
T_SingleMatrix == SingleRead("t_single_matrix", "matrix", "t_all")

\* What the script prints of one get_all_sensors_data() result.
Printed(samples) == IF Aggregate(samples) THEN samples ELSE <<>>

\* Lines 135-142: all_data = get_all_sensors_data(); printed only if all_data["success"].
T_AllSensorsOnce ==
    /\ script = "trakstar" /\ pc = "t_all"
    /\ \/ /\ \E f \in [0 .. (num_sensors - 1) -> BOOLEAN] :
               /\ sweep' = AllSamples(num_sensors, f)
               /\ delivered' = Printed(sweep')
          /\ pc' = "t_loop"
          /\ UNCHANGED <<status, excRaised>>
       \/ /\ T_Raise
          /\ UNCHANGED <<sweep, delivered>>
    /\ UNCHANGED <<script, isok, devSensors, num_sensors, i, cfgVars, lastRead,
                   consecFail, releases, interrupted>>

\* Line 152: while time.time() - start_time < 5.0 ... lines 168, 173-174 when it ends.
T_LoopCond ==
    /\ script = "trakstar" /\ pc = "t_loop"
    /\ \/ /\ pc' = "t_poll"
          /\ UNCHANGED status
       \/ T_Return("completed")
    /\ UNCHANGED <<script, isok, devSensors, num_sensors, i, cfgVars, readVars,
                   releases, excRaised, interrupted>>

\* Lines 153-164: one sweep of the timed loop, printed only if all_data["success"].
T_Poll ==
    /\ script = "trakstar" /\ pc = "t_poll"
    /\ \/ /\ \E f \in [0 .. (num_sensors - 1) -> BOOLEAN] :
               /\ sweep' = AllSamples(num_sensors, f)
               /\ delivered' = Printed(sweep')
               /\ consecFail' = CountFail(consecFail, Aggregate(sweep'))
          /\ pc' = "t_sleep"
          /\ UNCHANGED <<status, excRaised>>
       \/ /\ T_Raise
          /\ UNCHANGED <<sweep, delivered, consecFail>>
    /\ UNCHANGED <<script, isok, devSensors, num_sensors, i, cfgVars, lastRead,
                   releases, interrupted>>

\* Line 166: time.sleep(0.1)
T_Sleep ==
    /\ script = "trakstar" /\ pc = "t_sleep"
    /\ pc' = "t_loop"
    /\ UNCHANGED <<script, isok, devSensors, num_sensors, i, cfgVars, readVars,
                   releases, status, excRaised, interrupted>>

-----------------------------------------------------------------------------
(* examples/simple_example.py *)

\* main() is left: by return (status 0) or by an uncaught Exception (status 1).
S_Crash ==
    /\ excRaised' = TRUE
    /\ pc' = "s_crashed"
    /\ status' = "1"

\* Lines 31-39: trakstar = pytrak.Trakstar(); if not trakstar.is_ok(): return
S_Construct ==
    /\ script = "simple" /\ pc = "s_init"
    /\ \E r \in CallResults :
         \/ /\ r = "ok"
            /\ isok' = "yes" /\ pc' = "s_count"
            /\ UNCHANGED <<status, excRaised>>
         \/ /\ r = "fail"
            /\ isok' = "no"
            /\ pc' = "s_done" /\ status' = "0"
            /\ UNCHANGED excRaised
         \/ /\ r = "raise"
            /\ S_Crash
            /\ UNCHANGED isok
    /\ UNCHANGED <<script, devSensors, num_sensors, i, cfgVars, readVars,
                   releases, interrupted>>

\* Lines 41-44: num_sensors = trakstar.get_number_of_sensors(); no check for zero.
S_Count ==
    /\ script = "simple" /\ pc = "s_count"
    /\ \E r \in {"ok", "raise"} :
         \/ /\ r = "ok"
            /\ num_sensors' = devSensors
            /\ i' = 0
            /\ pc' = IF devSensors > 0 THEN "s_cfg" ELSE "s_sweep"
            /\ UNCHANGED <<status, excRaised>>
         \/ /\ r = "raise"
            /\ S_Crash
            /\ UNCHANGED <<num_sensors, i>>
    /\ UNCHANGED <<script, isok, devSensors, cfgVars, readVars, releases,
                   interrupted>>

\* Lines 45-46: for i in range(num_sensors): set_sensor_quaternion(i), result ignored.
S_SetSensorQuaternion ==
    /\ script = "simple" /\ pc = "s_cfg"
    /\ \E r \in CallResults :
         \/ /\ r \in {"ok", "fail"}
            /\ mode' = IF r = "ok" THEN [mode EXCEPT ![i] = "quaternion"] ELSE mode
            /\ cfgFailed' = (cfgFailed \/ r = "fail")
            /\ i' = i + 1
            /\ pc' = IF i + 1 < num_sensors THEN "s_cfg" ELSE "s_sweep"
            /\ UNCHANGED <<status, excRaised>>
         \/ /\ r = "raise"
            /\ S_Crash
            /\ UNCHANGED <<mode, cfgFailed, i>>
    /\ UNCHANGED <<script, isok, devSensors, num_sensors, rateSet, rangeSet,
                   hemi, readVars, releases, interrupted>>

\* Lines 51-52: while True: for sensor_id in range(num_sensors): a new sweep starts.
S_SweepStart ==
    /\ script = "simple" /\ pc = "s_sweep"
    /\ sweep' = <<>>
    /\ delivered' = <<>>
    /\ i' = 0
    /\ pc' = IF num_sensors > 0 THEN "s_read" ELSE "s_sleep"
    /\ UNCHANGED <<script, isok, devSensors, num_sensors, cfgVars, lastRead,
                   consecFail, releases, status, excRaised, interrupted>>

\* The for loop with "else: break" after the success test.
NextSensorBreak(idx, ok, n) == IF ok THEN idx + 1 ELSE n

\* The for loop's next sensor_id after the body ran for idx: the body has no
\* break, whatever data["success"] was.
NextSensor(idx, ok, n) == idx + 1

\* Lines 53-57: data = get_coordinates_quaternion(sensor_id); printed if data["success"].
S_Read ==
    /\ script = "simple" /\ pc = "s_read"
    /\ \E r \in CallResults :
         \/ /\ r \in {"ok", "fail"}
            /\ LET sample == [id |-> i, success |-> (r = "ok")] IN
                 /\ sweep' = Append(sweep, sample)
                 /\ delivered' = IF sample.success THEN Append(delivered, sample)
                                                   ELSE delivered
            /\ lastRead' = [id |-> i, kind |-> "quaternion", cfg |-> mode[i]]
            /\ consecFail' = CountFail(consecFail, r = "ok")
            /\ i' = NextSensor(i, r = "ok", num_sensors)
            /\ pc' = IF i' < num_sensors THEN "s_read" ELSE "s_sleep"
            /\ UNCHANGED <<status, excRaised>>
         \/ /\ r = "raise"
            /\ S_Crash
            /\ UNCHANGED <<readVars, i>>
    /\ UNCHANGED <<script, isok, devSensors, num_sensors, cfgVars, releases,
                   interrupted>>

\* Line 58: time.sleep(0.1), then the next iteration of while True.
S_Sleep ==
    /\ script = "simple" /\ pc = "s_sleep"
    /\ pc' = "s_sweep"
    /\ UNCHANGED <<script, isok, devSensors, num_sensors, i, cfgVars, readVars,
                   releases, status, excRaised, interrupted>>

-----------------------------------------------------------------------------
(* User interrupt *)

Terminal == {"t_done", "s_done", "s_crashed", "killed"}

\* Positions inside a try block that has an "except KeyboardInterrupt" clause.
InTry(p) == p \in {"s_sweep", "s_read", "s_sleep", "t_loop", "t_poll", "t_sleep"}

\* Ctrl+C: Python raises KeyboardInterrupt at the script's current position.
\* Inside the polling loop's try it is caught and the script ends normally;
\* anywhere else nothing catches it (it is no Exception) and the process dies.
KeyboardInterrupt ==
    /\ pc \notin Terminal
    /\ IF InTry(pc)
         THEN /\ interrupted' = TRUE
              /\ IF script = "trakstar"
                   THEN T_Return("completed")
                   ELSE pc' = "s_done" /\ status' = "0"
         ELSE /\ pc' = "killed"
              /\ status' = "interrupt"
              /\ UNCHANGED interrupted
    /\ UNCHANGED <<script, isok, devSensors, num_sensors, i, cfgVars, readVars,
                   releases, excRaised>>

-----------------------------------------------------------------------------

Next ==
    \/ T_Construct
    \/ T_Info
    \/ T_SensorAttached
    \/ T_CheckSensors
    \/ T_SetMeasurementRate
    \/ T_SetMaximumRange
    \/ T_SetSensorHemisphere
    \/ T_SetSensorQuaternion
    \/ T_SingleQuaternion
    \/ T_SingleAngles
    \/ T_SingleMatrix
    \/ T_AllSensorsOnce
    \/ T_LoopCond
    \/ T_Poll
    \/ T_Sleep
    \/ S_Construct
    \/ S_Count
    \/ S_SetSensorQuaternion
    \/ S_SweepStart
    \/ S_Read
    \/ S_Sleep
    \/ KeyboardInterrupt

Spec == Init /\ [][Next]_vars

TypeOK ==
    /\ script \in {"simple", "trakstar"}
    /\ isok \in {"unknown", "yes", "no"}
    /\ devSensors \in 0 .. MaxSensors
    /\ num_sensors \in -1 .. MaxSensors
    /\ i \in 0 .. MaxSensors
    /\ mode \in [Sensors -> Modes]
    /\ hemi \subseteq Sensors
    /\ consecFail \in 0 .. (RetryBudget + 1)
    /\ releases \in Nat
    /\ status \in {"none", "0", "1", "interrupt"}

-----------------------------------------------------------------------------
(* The session states of the specification, read off the scripts' positions *)

ConfiguringPcs == {"t_rate", "t_range", "t_hemi", "t_quat", "s_cfg"}

SamplingPcs == {"t_single_quat", "t_single_angles", "t_single_matrix", "t_all",
                "t_loop", "t_poll", "t_sleep", "s_sweep", "s_read", "s_sleep"}

\* Rate, range and every enumerated sensor's output mode were applied successfully.
ConfigApplied ==
    /\ rateSet
    /\ rangeSet
    /\ \A s \in 0 .. (num_sensors - 1) : mode[s] # "none"

\* The samples are those of sensors 0, 1, ... in this order, none skipped or repeated.
Ascending(samples) == \A k \in 1 .. Len(samples) : samples[k].id = k - 1

-----------------------------------------------------------------------------
(* C1 *)

\* A step of simple_example in which the read of the current sensor returned
\* success = false.
C1_FailedRead ==
    /\ script = "simple" /\ pc = "s_read"
    /\ Len(sweep') = Len(sweep) + 1
    /\ ~ sweep'[Len(sweep')].success

\* C1: a read that returns success=false does not abort the sweep.  The step
\* that records the failed sample leaves the script inside the sweep, at the
\* next sensor (or at the tick when it was the last one), the failed sample
\* carries its own sensor id, the samples of the other sensors are untouched,
\* and a sweep that reaches its tick holds one sample per enumerated sensor,
\* each with its own outcome, failed ones included.
C1_FailureDoesNotAbortSweep ==
    /\ [](script = "simple" /\ pc = "s_sleep"
            => Len(sweep) = num_sensors /\ Ascending(sweep))
    /\ [][C1_FailedRead =>
            /\ pc' \in {"s_read", "s_sleep"}
            /\ i' = i + 1
            /\ (pc' = "s_read") <=> (i' < num_sensors)
            /\ sweep'[Len(sweep')].id = i
            /\ \A k \in 1 .. Len(sweep) : sweep'[k] = sweep[k]
            /\ delivered' = delivered]_vars

\* A completed sweep whose first sensor failed and whose second sensor was
\* read afterwards and succeeded.
C1_Witness ==
    /\ script = "simple" /\ pc = "s_sleep"
    /\ Len(sweep) >= 2
    /\ ~ sweep[1].success
    /\ sweep[2].success
    /\ Len(delivered) = Len(sweep) - 1

-----------------------------------------------------------------------------
(* C2 *)

\* C2: the session is in Configuring or Sampling only if the device opened
\* successfully and at least one sensor was enumerated (otherwise it is
\* Failed and neither configures nor sweeps), in either script.
C2_LeavesUninitializedOnlyWithSensors ==
    pc \in (ConfiguringPcs \cup SamplingPcs) => (isok = "yes" /\ num_sensors >= 1)

-----------------------------------------------------------------------------
(* C3 *)

\* C3: a pose read is issued only after the measurement rate, the maximum
\* range and every sensor's output mode were applied successfully.
C3_ReadOnlyAfterConfigApplied ==
    lastRead # NoRead => ConfigApplied

-----------------------------------------------------------------------------
(* C4 *)

\* C4: when the polling loop has been cancelled by a user interrupt, the
\* sweep it was in is either not begun or complete: never a partial sweep.
C4_CancelOnlyAtTickBoundary ==
    interrupted => Len(sweep) \in {0, num_sensors}

-----------------------------------------------------------------------------
(* C5 *)

\* C5: the polling loop never sees more consecutive failed reads than the
\* retry budget: by then the session has stopped.
C5_StopsWithinRetryBudget ==
    consecFail <= RetryBudget

-----------------------------------------------------------------------------
(* C6 *)

\* C6: every sweep of the polling loop that the script has left, by finishing
\* it or by handling a user interrupt, has read exactly num_sensors sensors,
\* ids 0 .. num_sensors-1 in ascending order.
C6_EverySweepReadsAllSensors ==
    (pc \notin {"s_read", "s_crashed"} /\ sweep # <<>>) =>
        (Len(sweep) = num_sensors /\ Ascending(sweep))

-----------------------------------------------------------------------------
(* C7 *)

\* C7: after a sweep over all sensors, every sample that was read
\* successfully has been delivered, also when the aggregate flag is false.
C7_PartialResultsDelivered ==
    (script = "trakstar" /\ pc = "t_sleep") =>
        \A k \in 1 .. Len(sweep) :
            sweep[k].success => \E j \in 1 .. Len(delivered) : delivered[j] = sweep[k]

-----------------------------------------------------------------------------
(* C8 *)

\* C8: every pose read of a sensor in an output mode finds that sensor's
\* output mode set to that same mode by an earlier configuration call.
C8_ReadModeWasConfigured ==
    lastRead # NoRead => lastRead.cfg = lastRead.kind

-----------------------------------------------------------------------------
(* C9 *)

\* C9: when a session that opened the device has ended with main returning
\* (loop finished or user interrupt handled), the device handle has been
\* released exactly once.
C9_HandleReleasedExactlyOnce ==
    (pc \in {"t_done", "s_done"} /\ isok = "yes" /\ ~ excRaised) => releases = 1

-----------------------------------------------------------------------------
(* C10 *)

\* C10 as stated: when trakstar_example has ended, its status is 0 exactly
\* when the device initialised, at least one sensor was enumerated and no
\* Exception was raised, and it is 1 on initialisation failure, on zero
\* sensors and on any Exception.
C10_StatusAsStated ==
    (script = "trakstar" /\ pc \in Terminal) =>
        /\ (status = "0") <=> (isok = "yes" /\ num_sensors >= 1 /\ ~ excRaised)
        /\ (isok = "no" \/ num_sensors = 0 \/ excRaised) => status = "1"

\* C10 amended: when trakstar_example has ended without an uncaught user
\* interrupt, its status is 0 exactly when the device initialised, at least
\* one sensor was enumerated and no Exception was raised, and 1 exactly on
\* initialisation failure, zero sensors or an Exception; a user interrupt
\* inside the continuous-acquisition loop gives status 0; a user interrupt
\* anywhere else is not caught and the process ends with neither status.
C10_StatusAmended ==
    (script = "trakstar" /\ pc \in Terminal) =>
        /\ (status = "0") <=>
              (isok = "yes" /\ num_sensors >= 1 /\ ~ excRaised /\ pc # "killed")
        /\ (status = "1") <=>
              ((isok = "no" \/ num_sensors = 0 \/ excRaised) /\ pc # "killed")
        /\ (status = "interrupt") <=> (pc = "killed")
        /\ interrupted => status = "0"

\* A run that ended with status 0 through a user interrupt in the loop,
\* after a failed configuration call and a failed sweep.
C10_Witness ==
    /\ script = "trakstar" /\ pc = "t_done"
    /\ status = "0"
    /\ interrupted
    /\ cfgFailed
    /\ sweep # <<>> /\ ~ Aggregate(sweep)

====
